---- MODULE Spec2Model ----
(***************************************************************************)
(* bot.js: the PDF compression job pipeline (the pdf_compression_jobs      *)
(* table, the uploads directory and compressPdfAsync, one step per         *)
(* statement group, with Node's run-to-completion scheduling: only an      *)
(* await lets another job run), the API key middleware and its routes,     *)
(* and the management of the WhatsApp socket.                              *)
(***************************************************************************)
EXTENDS Integers, Sequences, FiniteSets, TLC

\* ---- bounds ----
NumJobs == 1
MaxClock == 1
MaxSize == 3
NumNames == 1
NumKeys == 2
MaxRequests == 3
NumPairJobs == 2
MaxSocks == 3
NumLetters == 2
MaxLen == 2
NumReplies == 4
MaxRules == 4

Jobs == 1..NumJobs

\* the jobs of the specification of concurrent submissions
PairJobs == 1..NumPairJobs
Names == 1..NumNames
Sizes == 1..MaxSize
OutSizes == 0..(MaxSize + 1)
Responses == {"ok", "non2xx", "neterr"}
WebhookUrl == "https://caller.example/webhook"
PdfMime == "application/pdf"

\* what a client may upload: empty and oversized files, other media types,
\* missing or malformed callback URLs
UploadSizes == 0..(MaxSize + 1)
Mimes == {PdfMime, "text/plain"}
Urls == {WebhookUrl, "", "not a url"}

\* multer limits.fileSize, scaled to the model's sizes
fileSizeLimit == MaxSize

VARIABLES
    jobs,             \* table pdf_compression_jobs, keyed by job_id
    files,            \* the uploads directory: path -> [size, data]
    pc,               \* position of each job's compressPdfAsync
    running,          \* job whose synchronous code holds the event loop, 0 if none
    now,              \* Date.now() / CURRENT_TIMESTAMP
    originalFilename, \* parameter of compressPdfAsync
    outputFilename,   \* local of compressPdfAsync
    error,            \* the exception bound by catch (error)
    posts,            \* fetch() calls made to each job's webhook_url
    logs,             \* addLog entries per job
    events,           \* order of record writes, removals and posts per job
    response,         \* HTTP response given to each submission
    inserted,         \* number of rows ever inserted with each job_id
    API_KEY,          \* the key authenticateApiKey compares with
    configApiKey,     \* config table, row 'api_key'
    apiLogs,          \* addLog entries written by the middleware and the routes
    req,              \* the HTTP request last dispatched by Express
    res,              \* status of the response to req
    handlerRuns,      \* number of protected route handlers that have run
    requests,         \* number of requests dispatched
    globalSock,       \* let globalSock: the socket the API uses, 0 for null
    connectionStatus, \* let connectionStatus
    connectedNumber,  \* let connectedNumber, 0 for null
    socks,            \* state of every socket made by makeWASocket
    opened,           \* sockets whose 'open' event has been handled
    timers,           \* pending setTimeout(() => connectToWhatsApp(), 5000)
    connects,         \* connectToWhatsApp calls awaiting useMultiFileAuthState
    pairings,         \* initWhatsAppForPairing calls awaiting useMultiFileAuthState
    socksMade,        \* number of sockets made so far
    awaitingLogout,   \* the route handler awaiting globalSock.logout(), "" if none
    autoReplies,      \* table auto_replies, in rowid order
    lastMsg,          \* the incoming message last handled by messages.upsert
    sent              \* the auto-replies sent for lastMsg

reqVars == <<response, inserted>>

apiVars == <<API_KEY, configApiKey, apiLogs, req, res, handlerRuns, requests>>

sockVars == <<globalSock, connectionStatus, connectedNumber, socks, opened, timers,
              connects, pairings, socksMade, awaitingLogout>>

replyVars == <<autoReplies, lastMsg, sent>>

pipelineVars == <<jobs, files, pc, running, now, originalFilename, outputFilename,
                  error, posts, logs, events, response, inserted>>

vars == <<jobs, files, pc, running, now, originalFilename, outputFilename,
          error, posts, logs, events, response, inserted,
          API_KEY, configApiKey, apiLogs, req, res, handlerRuns, requests,
          globalSock, connectionStatus, connectedNumber, socks, opened, timers,
          connects, pairings, socksMade, awaitingLogout,
          autoReplies, lastMsg, sent>>

\* ---- helpers ----
None == {}
Some(v) == {v}
IsSet(f) == f # {}

\* req.file.path: multer's unique name under uploads/
inputPath(j) == 0 - j

\* `compressed_${Date.now()}_${originalFilename}`
OutputName(t, name) == t * NumNames + name

\* path.join('uploads', outputFilename)
outputPath(j) == outputFilename[j]

existsSync(p) == p \in DOMAIN files

Remove(p) == [q \in DOMAIN files \ {p} |-> files[q]]

WriteFile(p, s, d) == [q \in DOMAIN files \cup {p} |->
                          IF q = p THEN [size |-> s, data |-> d] ELSE files[q]]

Abs(x) == IF x < 0 THEN 0 - x ELSE x

\* the ratio cut to two decimals rather than rounded
ToFixed2_Truncating(o, c) ==
    LET q == (Abs(o - c) * 10000) \div o
    IN  IF o - c < 0 THEN 0 - q ELSE q

\* ((o - c) / o * 100).toFixed(2), in hundredths of a percent
ToFixed2(o, c) ==
    LET n == Abs(o - c) * 10000
        q == (2 * n + o) \div (2 * o)
    IN  IF o - c < 0 THEN 0 - q ELSE q

addLog(j, type, msg) == [logs EXCEPT ![j] = Append(@, [type |-> type, message |-> msg])]

Event(j, e) == [events EXCEPT ![j] = Append(@, e)]

Range(s) == {s[i] : i \in DOMAIN s}

\* ---- WhatsApp sockets ----
Socks == 1..MaxSocks

\* a socket is live from makeWASocket until it is ended; an ended socket
\* delivers one 'close' connection.update, with the logged-out reason or not
LiveStates == {"connecting", "open"}
ClosingStates == {"closingLoggedOut", "closingOther"}

\* ---- auto-replies ----
\* texts are sequences of letters: 1..NumLetters are the lower-case letters,
\* NumLetters + c is the upper case of c
Chars == 1..(2 * NumLetters)

RECURSIVE TextsOfLen(_)
TextsOfLen(n) ==
    IF n = 0 THEN {<<>>}
    ELSE {Append(w, c) : w \in TextsOfLen(n - 1), c \in Chars}

\* messageContent of an incoming message
Contents == UNION {TextsOfLen(n) : n \in 0..MaxLen}

\* 'bong' -> 'bing', 'hello' -> 'Hi there!', 'ping' -> 'pong'
defaultReplies ==
    << [trigger_word |-> <<1, 1>>, reply_message |-> 1, is_active |-> TRUE],
       [trigger_word |-> <<1, 2>>, reply_message |-> 2, is_active |-> TRUE],
       [trigger_word |-> <<2, 2>>, reply_message |-> 3, is_active |-> TRUE] >>

\* trigger words a user adds through POST /api/auto-replies
AddedTriggers == {<<1>>, <<NumLetters + 1>>}

\* the reply_message of an added rule
AddedReplies == {NumReplies}

\* the two functions that install a messages.upsert handler
HandlerKinds == {"connectToWhatsApp", "initWhatsAppForPairing"}

NoMessage == [content |-> <<>>, fromMe |-> FALSE, handler |-> ""]

\* String.prototype.toLowerCase
toLowerCase(w) == [i \in DOMAIN w |-> IF w[i] > NumLetters THEN w[i] - NumLetters ELSE w[i]]

\* String.prototype.includes
includes(w, t) ==
    \E k \in 0..(Len(w) - Len(t)) : SubSeq(w, k + 1, k + Len(t)) = t

\* ---- HTTP API: requests and the API key ----
Keys == 1..NumKeys

\* a key a client sends in one place of a request; 0 when that place is empty
KeyInputs == 0..NumKeys

ApiRoutes == {"/api/status", "/api/apikey", "/api/apikey/regenerate", "/api/logs"}
LegacyRoutes == {"/status"}
ProtectedRoutes == ApiRoutes \cup LegacyRoutes
PublicRoutes == {"/health"}
StaticRoutes == {"/"}
Routes == ProtectedRoutes \cup PublicRoutes \cup StaticRoutes

\* the Authorization header: its value is prefix followed by key
Authorizations == [prefix : {"Bearer ", ""}, key : KeyInputs]

HttpRequests == [route : Routes, xApiKey : KeyInputs,
                 authorization : Authorizations, queryApiKey : KeyInputs]

NoRequest == [route |-> "", xApiKey |-> 0,
              authorization |-> [prefix |-> "", key |-> 0], queryApiKey |-> 0]

\* req.headers['x-api-key'] || req.headers['authorization']?.replace('Bearer ', '')
\*   || req.query.api_key
PresentedKey(r) ==
    IF r.xApiKey # 0 THEN r.xApiKey
    ELSE IF r.authorization.key # 0 THEN r.authorization.key
    ELSE r.queryApiKey

\* the middleware letting a request without any key through
authenticateApiKey_NoKeyPasses(r) ==
    IF PresentedKey(r) # 0 /\ PresentedKey(r) # API_KEY THEN 403 ELSE 0

\* authenticateApiKey: 401 without a key, 403 with another key, 0 for next()
authenticateApiKey(r) ==
    IF PresentedKey(r) = 0 THEN 401
    ELSE IF PresentedKey(r) # API_KEY THEN 403
    ELSE 0

apiLog(type, msg) == Append(apiLogs, [type |-> type, message |-> msg])

\* ---- initial state ----
Init ==
    /\ jobs = <<>>
    /\ files = <<>>
    /\ pc = [j \in Jobs |-> "idle"]
    /\ running = 0
    /\ now = 0
    /\ originalFilename = [j \in Jobs |-> 0]
    /\ outputFilename = [j \in Jobs |-> 0]
    /\ error = [j \in Jobs |-> ""]
    /\ posts = [j \in Jobs |-> <<>>]
    /\ logs = [j \in Jobs |-> <<>>]
    /\ events = [j \in Jobs |-> <<>>]
    /\ response = [j \in Jobs |-> None]
    /\ inserted = [j \in Jobs |-> 0]
    /\ API_KEY = 1
    /\ configApiKey = 1
    /\ apiLogs = <<>>
    /\ req = NoRequest
    /\ res = 0
    /\ handlerRuns = 0
    /\ requests = 0
    /\ globalSock = 0
    /\ connectionStatus = "disconnected"
    /\ connectedNumber = 0
    /\ socks = [s \in Socks |-> "unused"]
    /\ opened = {}
    /\ timers = 0
    /\ connects = 0
    /\ pairings = 0
    /\ socksMade = 0
    /\ awaitingLogout = ""
    /\ autoReplies = defaultReplies
    /\ lastMsg = NoMessage
    /\ sent = <<>>

\* time passes between two turns of the event loop
Tick ==
    /\ running = 0
    /\ now < MaxClock
    /\ now' = now + 1
    /\ UNCHANGED <<replyVars, sockVars, apiVars, reqVars, jobs, files, pc, running, originalFilename, outputFilename,
                   error, posts, logs, events>>

\* validation of a submission: non-empty, within the size ceiling, a PDF,
\* with a well-formed callback URL
ValidUpload(size, mime, url) ==
    /\ size >= 1
    /\ size <= fileSizeLimit
    /\ mime = PdfMime
    /\ url = WebhookUrl

\* the UNIQUE constraint on job_id not enforced
UniqueJobId_NotEnforced(j) == TRUE

\* job_id TEXT UNIQUE NOT NULL: an INSERT succeeds only for an unused job_id
UniqueJobId(j) == j \notin DOMAIN jobs

\* a submission that answers only when the transformation has ended
Submit_AwaitsCompression(j, name, size) ==
    /\ running = 0
    /\ UniqueJobId(j)
    /\ ValidUpload(size, PdfMime, WebhookUrl)
    /\ jobs' = [k \in DOMAIN jobs \cup {j} |->
                  IF k = j
                  THEN [job_id |-> j,
                        webhook_url |-> WebhookUrl,
                        original_filename |-> name,
                        compressed_filename |-> None,
                        status |-> "processing",
                        original_size |-> size,
                        compressed_size |-> None,
                        compression_ratio |-> None,
                        error_message |-> None,
                        created_at |-> now,
                        completed_at |-> None]
                  ELSE jobs[k]]
    /\ inserted' = [inserted EXCEPT ![j] = @ + 1]
    /\ response' = [response EXCEPT ![j] = None]
    /\ files' = WriteFile(inputPath(j), size, j)
    /\ originalFilename' = [originalFilename EXCEPT ![j] = name]
    /\ pc' = [pc EXCEPT ![j] = "start"]
    /\ running' = j
    /\ UNCHANGED <<replyVars, sockVars, apiVars, now, outputFilename, error, posts, logs, events>>

\* POST /api/compress-pdf with a valid upload: store the file, insert the
\* processing record, call compressPdfAsync without awaiting it, answer 202
Submit(j, name, size) ==
    /\ running = 0
    /\ UniqueJobId(j)
    /\ ValidUpload(size, PdfMime, WebhookUrl)
    /\ jobs' = [k \in DOMAIN jobs \cup {j} |->
                  IF k = j
                  THEN [job_id |-> j,
                        webhook_url |-> WebhookUrl,
                        original_filename |-> name,
                        compressed_filename |-> None,
                        status |-> "processing",
                        original_size |-> size,
                        compressed_size |-> None,
                        compression_ratio |-> None,
                        error_message |-> None,
                        created_at |-> now,
                        completed_at |-> None]
                  ELSE jobs[k]]
    /\ inserted' = [inserted EXCEPT ![j] = @ + 1]
    /\ response' = [response EXCEPT ![j] =
                      Some([code |-> 202, success |-> TRUE, jobId |-> j,
                            status |-> "processing"])]
    /\ files' = WriteFile(inputPath(j), size, j)
    /\ originalFilename' = [originalFilename EXCEPT ![j] = name]
    /\ pc' = [pc EXCEPT ![j] = "start"]
    /\ running' = j
    /\ UNCHANGED <<replyVars, sockVars, apiVars, now, outputFilename, error, posts, logs, events>>

\* a rejection that still stores the upload and creates the record
Reject_CreatesJob(j, size, mime, url) ==
    /\ running = 0
    /\ pc[j] = "idle"
    /\ ~ValidUpload(size, mime, url)
    /\ jobs' = [k \in DOMAIN jobs \cup {j} |->
                  IF k = j
                  THEN [job_id |-> j,
                        webhook_url |-> url,
                        original_filename |-> 1,
                        compressed_filename |-> None,
                        status |-> "processing",
                        original_size |-> size,
                        compressed_size |-> None,
                        compression_ratio |-> None,
                        error_message |-> None,
                        created_at |-> now,
                        completed_at |-> None]
                  ELSE jobs[k]]
    /\ response' = [response EXCEPT ![j] =
                      Some([code |-> 400, success |-> FALSE, jobId |-> 0,
                            status |-> "error"])]
    /\ pc' = [pc EXCEPT ![j] = "invalid"]
    /\ UNCHANGED <<replyVars, sockVars, apiVars, files, running, now, originalFilename, outputFilename,
                   error, posts, logs, events, inserted>>

\* POST /api/compress-pdf with an upload that fails validation: a client
\* error is answered and nothing else happens
Reject(j, size, mime, url) ==
    /\ running = 0
    /\ pc[j] = "idle"
    /\ ~ValidUpload(size, mime, url)
    /\ response' = [response EXCEPT ![j] =
                      Some([code |-> IF size > fileSizeLimit THEN 413 ELSE 400,
                            success |-> FALSE, jobId |-> 0, status |-> "error"])]
    /\ pc' = [pc EXCEPT ![j] = "invalid"]
    /\ UNCHANGED <<replyVars, sockVars, apiVars, jobs, files, running, now, originalFilename,
                   outputFilename, error, posts, logs, events, inserted>>

\* compressPdfAsync up to the await of execAsync
Start(j) ==
    /\ running = j
    /\ pc[j] = "start"
    /\ outputFilename' = [outputFilename EXCEPT ![j] = OutputName(now, originalFilename[j])]
    /\ logs' = addLog(j, "info", "Starting PDF compression")
    /\ pc' = [pc EXCEPT ![j] = "exec"]
    /\ running' = 0
    /\ UNCHANGED <<replyVars, sockVars, apiVars, reqVars, jobs, files, now, originalFilename, error, posts, events>>

\* gs exits with status 0; it has written the output file, or it has not
ExecExitZero(j, created, s) ==
    /\ running = 0
    /\ pc[j] = "exec"
    /\ files' = IF created THEN WriteFile(outputPath(j), s, j) ELSE files
    /\ pc' = [pc EXCEPT ![j] = "check"]
    /\ running' = j
    /\ UNCHANGED <<replyVars, sockVars, apiVars, reqVars, jobs, now, originalFilename, outputFilename, error, posts, logs, events>>

\* gs exits non-zero (or cannot be spawned): execAsync rejects; a partial
\* output file may be left behind
ExecExitNonZero(j, created, s) ==
    /\ running = 0
    /\ pc[j] = "exec"
    /\ files' = IF created THEN WriteFile(outputPath(j), s, j) ELSE files
    /\ error' = [error EXCEPT ![j] = "Command failed"]
    /\ pc' = [pc EXCEPT ![j] = "catch"]
    /\ running' = j
    /\ UNCHANGED <<replyVars, sockVars, apiVars, reqVars, jobs, now, originalFilename, outputFilename, posts, logs, events>>

\* gs never exits: execAsync(gsCommand) is called without a timeout option,
\* so the promise never settles
ExecHang(j) ==
    /\ running = 0
    /\ pc[j] = "exec"
    /\ pc' = [pc EXCEPT ![j] = "hung"]
    /\ UNCHANGED <<replyVars, sockVars, apiVars, reqVars, jobs, files, running, now, originalFilename, outputFilename,
                   error, posts, logs, events>>

\* if (!fs.existsSync(outputPath)) throw
CheckOutput(j) ==
    /\ running = j
    /\ pc[j] = "check"
    /\ IF existsSync(outputPath(j))
       THEN /\ pc' = [pc EXCEPT ![j] = "update"]
            /\ error' = error
       ELSE /\ pc' = [pc EXCEPT ![j] = "catch"]
            /\ error' = [error EXCEPT ![j] = "Compressed PDF was not created"]
    /\ UNCHANGED <<replyVars, sockVars, apiVars, reqVars, jobs, files, running, now, originalFilename, outputFilename,
                   posts, logs, events>>

\* a completing UPDATE that leaves completed_at unset
UpdateJob_NoCompletedAt(j) ==
    /\ running = j
    /\ pc[j] = "update"
    /\ LET originalStats == files[inputPath(j)]
           compressedStats == files[outputPath(j)]
           compressionRatio == ToFixed2(originalStats.size, compressedStats.size)
       IN  jobs' = [jobs EXCEPT ![j].status = "completed",
                                ![j].compressed_filename = Some(outputFilename[j]),
                                ![j].compressed_size = Some(compressedStats.size),
                                ![j].compression_ratio = Some(compressionRatio)]
    /\ events' = Event(j, "write_completed")
    /\ pc' = [pc EXCEPT ![j] = "unlink_input"]
    /\ UNCHANGED <<replyVars, sockVars, apiVars, reqVars, files, running, now, originalFilename, outputFilename,
                   error, posts, logs>>

\* statSync of both files, the ratio, and the completing UPDATE
UpdateJob(j) ==
    /\ running = j
    /\ pc[j] = "update"
    /\ LET originalStats == files[inputPath(j)]
           compressedStats == files[outputPath(j)]
           compressionRatio == ToFixed2(originalStats.size, compressedStats.size)
       IN  jobs' = [jobs EXCEPT ![j].status = "completed",
                                ![j].compressed_filename = Some(outputFilename[j]),
                                ![j].compressed_size = Some(compressedStats.size),
                                ![j].compression_ratio = Some(compressionRatio),
                                ![j].completed_at = Some(now)]
    /\ events' = Event(j, "write_completed")
    /\ pc' = [pc EXCEPT ![j] = "unlink_input"]
    /\ UNCHANGED <<replyVars, sockVars, apiVars, reqVars, files, running, now, originalFilename, outputFilename,
                   error, posts, logs>>

\* updateJob.run throws (database locked, disk full, closed)
UpdateJobThrows(j) ==
    /\ running = j
    /\ pc[j] = "update"
    /\ error' = [error EXCEPT ![j] = "SQLITE_ERROR"]
    /\ events' = Event(j, "store_error")
    /\ pc' = [pc EXCEPT ![j] = "catch"]
    /\ UNCHANGED <<replyVars, sockVars, apiVars, reqVars, jobs, files, running, now, originalFilename, outputFilename,
                   posts, logs>>

\* fs.unlinkSync(inputPath) on the success path
UnlinkInput(j) ==
    /\ running = j
    /\ pc[j] = "unlink_input"
    /\ IF existsSync(inputPath(j))
       THEN /\ files' = Remove(inputPath(j))
            /\ events' = Event(j, "rm_input")
            /\ pc' = [pc EXCEPT ![j] = "webhook"]
            /\ error' = error
       ELSE /\ files' = files
            /\ events' = Event(j, "unlink_error")
            /\ pc' = [pc EXCEPT ![j] = "catch"]
            /\ error' = [error EXCEPT ![j] = "ENOENT"]
    /\ UNCHANGED <<replyVars, sockVars, apiVars, reqVars, jobs, running, now, originalFilename, outputFilename, posts, logs>>

\* fs.unlinkSync(inputPath) throws although the file exists (EPERM, EBUSY)
UnlinkInputThrows(j) ==
    /\ running = j
    /\ pc[j] = "unlink_input"
    /\ existsSync(inputPath(j))
    /\ events' = Event(j, "unlink_error")
    /\ error' = [error EXCEPT ![j] = "EPERM"]
    /\ pc' = [pc EXCEPT ![j] = "catch"]
    /\ UNCHANGED <<replyVars, sockVars, apiVars, reqVars, jobs, files, running, now, originalFilename, outputFilename,
                   posts, logs>>

\* getJob.get(jobId) throws (database locked, I/O error) after the input file
\* has been unlinked
GetJobThrows(j) ==
    /\ running = j
    /\ pc[j] = "webhook"
    /\ error' = [error EXCEPT ![j] = "SQLITE_ERROR"]
    /\ pc' = [pc EXCEPT ![j] = "catch"]
    /\ UNCHANGED <<replyVars, sockVars, apiVars, reqVars, jobs, files, running, now, originalFilename, outputFilename,
                   posts, logs, events>>

\* the payload built from the record as it was before the completing UPDATE
SendWebhook_StaleRecord(j) ==
    /\ running = j
    /\ pc[j] = "webhook"
    /\ LET job == [jobs[j] EXCEPT !.compressed_size = None,
                                   !.compression_ratio = None,
                                   !.completed_at = None]
           compressedFilePath == outputFilename[j]
       IN  IF existsSync(compressedFilePath)
           THEN /\ posts' = [posts EXCEPT ![j] = Append(@,
                       [url |-> job.webhook_url,
                        recordStatus |-> job.status,
                        outcome |-> "pending",
                        payload |-> [jobId |-> job.job_id,
                                     status |-> "completed",
                                     originalFilename |-> job.original_filename,
                                     compressedFilename |-> outputFilename[j],
                                     originalSize |-> job.original_size,
                                     compressedSize |-> job.compressed_size,
                                     compressionRatio |-> job.compression_ratio,
                                     fileData |-> files[compressedFilePath].data,
                                     mimeType |-> "application/pdf",
                                     completedAt |-> job.completed_at]])]
                /\ events' = Event(j, "post_completed")
                /\ pc' = [pc EXCEPT ![j] = "await_webhook"]
                /\ error' = error
                /\ running' = 0
           ELSE /\ posts' = posts
                /\ events' = events
                /\ pc' = [pc EXCEPT ![j] = "catch"]
                /\ error' = [error EXCEPT ![j] = "ENOENT"]
                /\ running' = running
    /\ UNCHANGED <<replyVars, sockVars, apiVars, reqVars, jobs, files, now, originalFilename, outputFilename, logs>>

\* re-read the record, read the output file, build the payload, call fetch
SendWebhook(j) ==
    /\ running = j
    /\ pc[j] = "webhook"
    /\ LET job == jobs[j]
           compressedFilePath == outputFilename[j]
       IN  IF existsSync(compressedFilePath)
           THEN /\ posts' = [posts EXCEPT ![j] = Append(@,
                       [url |-> job.webhook_url,
                        recordStatus |-> job.status,
                        outcome |-> "pending",
                        payload |-> [jobId |-> job.job_id,
                                     status |-> "completed",
                                     originalFilename |-> job.original_filename,
                                     compressedFilename |-> outputFilename[j],
                                     originalSize |-> job.original_size,
                                     compressedSize |-> job.compressed_size,
                                     compressionRatio |-> job.compression_ratio,
                                     fileData |-> files[compressedFilePath].data,
                                     mimeType |-> "application/pdf",
                                     completedAt |-> job.completed_at]])]
                /\ events' = Event(j, "post_completed")
                /\ pc' = [pc EXCEPT ![j] = "await_webhook"]
                /\ error' = error
                /\ running' = 0
           ELSE /\ posts' = posts
                /\ events' = events
                /\ pc' = [pc EXCEPT ![j] = "catch"]
                /\ error' = [error EXCEPT ![j] = "ENOENT"]
                /\ running' = running
    /\ UNCHANGED <<replyVars, sockVars, apiVars, reqVars, jobs, files, now, originalFilename, outputFilename, logs>>

SetOutcome(j, r) == [posts EXCEPT ![j][Len(posts[j])].outcome = r]

\* the success webhook's fetch without its own try/catch: a rejected fetch
\* reaches the outer catch block
WebhookSettled_NoInnerCatch(j, r) ==
    /\ running = 0
    /\ pc[j] = "await_webhook"
    /\ posts' = SetOutcome(j, r)
    /\ IF r = "neterr"
       THEN /\ logs' = logs
            /\ error' = [error EXCEPT ![j] = "fetch failed"]
            /\ pc' = [pc EXCEPT ![j] = "catch"]
            /\ running' = j
       ELSE /\ logs' = [logs EXCEPT ![j] =
                  Append(Append(@,
                      IF r = "ok"
                      THEN [type |-> "info", message |-> "Webhook sent successfully"]
                      ELSE [type |-> "error", message |-> "Webhook failed"]),
                      [type |-> "info", message |-> "PDF compression completed"])]
            /\ error' = error
            /\ pc' = [pc EXCEPT ![j] = "done"]
            /\ running' = running
    /\ UNCHANGED <<replyVars, sockVars, apiVars, reqVars, jobs, files, now, originalFilename, outputFilename, events>>

\* the success webhook's fetch settles; the inner try/catch logs the outcome,
\* then the completion is logged
WebhookSettled(j, r) ==
    /\ running = 0
    /\ pc[j] = "await_webhook"
    /\ posts' = SetOutcome(j, r)
    /\ logs' = [logs EXCEPT ![j] =
                  Append(Append(@,
                      CASE r = "ok" -> [type |-> "info", message |-> "Webhook sent successfully"]
                        [] r = "non2xx" -> [type |-> "error", message |-> "Webhook failed"]
                        [] OTHER -> [type |-> "error", message |-> "Webhook error"]),
                      [type |-> "info", message |-> "PDF compression completed"])]
    /\ pc' = [pc EXCEPT ![j] = "done"]
    /\ UNCHANGED <<replyVars, sockVars, apiVars, reqVars, jobs, files, running, now, originalFilename, outputFilename,
                   error, events>>

\* a catch block that runs the engine again after a failure
Catch_RetriesEngine(j) ==
    /\ running = j
    /\ pc[j] = "catch"
    /\ logs' = addLog(j, "error", "PDF compression failed")
    /\ pc' = [pc EXCEPT ![j] = IF Len(logs[j]) < 2 THEN "start" ELSE "update_error"]
    /\ UNCHANGED <<replyVars, sockVars, apiVars, reqVars, jobs, files, running, now, originalFilename, outputFilename,
                   error, posts, events>>

\* catch (error): log the failure
Catch(j) ==
    /\ running = j
    /\ pc[j] = "catch"
    /\ logs' = addLog(j, "error", "PDF compression failed")
    /\ pc' = [pc EXCEPT ![j] = "update_error"]
    /\ UNCHANGED <<replyVars, sockVars, apiVars, reqVars, jobs, files, running, now, originalFilename, outputFilename,
                   error, posts, events>>

\* a failing step that deletes the job's row rather than updating it
UpdateJobError_DeletesRecord(j) ==
    /\ running = j
    /\ pc[j] = "update_error"
    /\ jobs' = [k \in DOMAIN jobs \ {j} |-> jobs[k]]
    /\ events' = Event(j, "write_failed")
    /\ pc' = [pc EXCEPT ![j] = "cleanup_input"]
    /\ UNCHANGED <<replyVars, sockVars, apiVars, reqVars, files, running, now, originalFilename, outputFilename,
                   error, posts, logs>>

\* the failing UPDATE
UpdateJobError(j) ==
    /\ running = j
    /\ pc[j] = "update_error"
    /\ jobs' = [jobs EXCEPT ![j].status = "failed",
                            ![j].error_message = Some(error[j]),
                            ![j].completed_at = Some(now)]
    /\ events' = Event(j, "write_failed")
    /\ pc' = [pc EXCEPT ![j] = "cleanup_input"]
    /\ UNCHANGED <<replyVars, sockVars, apiVars, reqVars, files, running, now, originalFilename, outputFilename,
                   error, posts, logs>>

\* updateJobError.run throws inside the catch block: the exception leaves
\* compressPdfAsync as a rejected promise
UpdateJobErrorThrows(j) ==
    /\ running = j
    /\ pc[j] = "update_error"
    /\ events' = Event(j, "store_error")
    /\ pc' = [pc EXCEPT ![j] = "rejected"]
    /\ running' = 0
    /\ UNCHANGED <<replyVars, sockVars, apiVars, reqVars, jobs, files, now, originalFilename, outputFilename,
                   error, posts, logs>>

\* the catch block unlinking the input without looking whether it exists
CleanupInput_Unguarded(j) ==
    /\ running = j
    /\ pc[j] = "cleanup_input"
    /\ IF existsSync(inputPath(j))
       THEN /\ files' = Remove(inputPath(j))
            /\ events' = Event(j, "rm_input")
            /\ pc' = [pc EXCEPT ![j] = "cleanup_output"]
            /\ running' = running
       ELSE /\ files' = files
            /\ events' = Event(j, "unlink_error")
            /\ pc' = [pc EXCEPT ![j] = "rejected"]
            /\ running' = 0
    /\ UNCHANGED <<replyVars, sockVars, apiVars, reqVars, jobs, now, originalFilename, outputFilename,
                   error, posts, logs>>

\* if (fs.existsSync(inputPath)) fs.unlinkSync(inputPath)
CleanupInput(j) ==
    /\ running = j
    /\ pc[j] = "cleanup_input"
    /\ IF existsSync(inputPath(j))
       THEN /\ files' = Remove(inputPath(j))
            /\ events' = Event(j, "rm_input")
       ELSE /\ files' = files
            /\ events' = events
    /\ pc' = [pc EXCEPT ![j] = "cleanup_output"]
    /\ UNCHANGED <<replyVars, sockVars, apiVars, reqVars, jobs, running, now, originalFilename, outputFilename,
                   error, posts, logs>>

\* if (fs.existsSync(outputPath)) fs.unlinkSync(outputPath)
CleanupOutput(j) ==
    /\ running = j
    /\ pc[j] = "cleanup_output"
    /\ IF existsSync(outputPath(j))
       THEN /\ files' = Remove(outputPath(j))
            /\ events' = Event(j, "rm_output")
       ELSE /\ files' = files
            /\ events' = events
    /\ pc' = [pc EXCEPT ![j] = "error_webhook"]
    /\ UNCHANGED <<replyVars, sockVars, apiVars, reqVars, jobs, running, now, originalFilename, outputFilename,
                   error, posts, logs>>

\* an unlinkSync of the catch block throws: the exception leaves
\* compressPdfAsync as a rejected promise
CleanupThrows(j) ==
    /\ running = j
    /\ \/ pc[j] = "cleanup_input" /\ existsSync(inputPath(j))
       \/ pc[j] = "cleanup_output" /\ existsSync(outputPath(j))
    /\ events' = Event(j, "unlink_error")
    /\ pc' = [pc EXCEPT ![j] = "rejected"]
    /\ running' = 0
    /\ UNCHANGED <<replyVars, sockVars, apiVars, reqVars, jobs, files, now, originalFilename, outputFilename,
                   error, posts, logs>>

\* an error payload with a fixed text in place of error.message
SendErrorWebhook_GenericError(j) ==
    /\ running = j
    /\ pc[j] = "error_webhook"
    /\ IF j \in DOMAIN jobs
       THEN /\ posts' = [posts EXCEPT ![j] = Append(@,
                   [url |-> jobs[j].webhook_url,
                    recordStatus |-> jobs[j].status,
                    outcome |-> "pending",
                    payload |-> [jobId |-> j,
                                 status |-> "failed",
                                 error |-> "Compression failed"]])]
            /\ events' = Event(j, "post_failed")
            /\ pc' = [pc EXCEPT ![j] = "await_error_webhook"]
       ELSE /\ posts' = posts
            /\ events' = events
            /\ pc' = [pc EXCEPT ![j] = "done"]
    /\ running' = 0
    /\ UNCHANGED <<replyVars, sockVars, apiVars, reqVars, jobs, files, now, originalFilename, outputFilename, error, logs>>

\* SELECT webhook_url, build the error payload, call fetch
SendErrorWebhook(j) ==
    /\ running = j
    /\ pc[j] = "error_webhook"
    /\ IF j \in DOMAIN jobs
       THEN /\ posts' = [posts EXCEPT ![j] = Append(@,
                   [url |-> jobs[j].webhook_url,
                    recordStatus |-> jobs[j].status,
                    outcome |-> "pending",
                    payload |-> [jobId |-> j,
                                 status |-> "failed",
                                 error |-> error[j]]])]
            /\ events' = Event(j, "post_failed")
            /\ pc' = [pc EXCEPT ![j] = "await_error_webhook"]
       ELSE /\ posts' = posts
            /\ events' = events
            /\ pc' = [pc EXCEPT ![j] = "done"]
    /\ running' = 0
    /\ UNCHANGED <<replyVars, sockVars, apiVars, reqVars, jobs, files, now, originalFilename, outputFilename, error, logs>>

\* the error webhook's fetch settles: the response is not inspected, only a
\* rejected fetch is logged
ErrorWebhookSettled(j, r) ==
    /\ running = 0
    /\ pc[j] = "await_error_webhook"
    /\ posts' = SetOutcome(j, r)
    /\ logs' = IF r = "neterr"
               THEN addLog(j, "error", "Error webhook failed")
               ELSE logs
    /\ pc' = [pc EXCEPT ![j] = "done"]
    /\ UNCHANGED <<replyVars, sockVars, apiVars, reqVars, jobs, files, running, now, originalFilename, outputFilename,
                   error, events>>

Next ==
    \/ Tick
    \/ \E j \in Jobs, name \in Names, size \in UploadSizes : Submit(j, name, size)
    \/ \E j \in Jobs, size \in UploadSizes, mime \in Mimes, url \in Urls :
          Reject(j, size, mime, url)
    \/ \E j \in Jobs : Start(j)
    \/ \E j \in Jobs, created \in BOOLEAN, s \in OutSizes : ExecExitZero(j, created, s)
    \/ \E j \in Jobs, created \in BOOLEAN, s \in OutSizes : ExecExitNonZero(j, created, s)
    \/ \E j \in Jobs : ExecHang(j)
    \/ \E j \in Jobs : CheckOutput(j)
    \/ \E j \in Jobs : UpdateJob(j)
    \/ \E j \in Jobs : UpdateJobThrows(j)
    \/ \E j \in Jobs : UnlinkInput(j)
    \/ \E j \in Jobs : UnlinkInputThrows(j)
    \/ \E j \in Jobs : GetJobThrows(j)
    \/ \E j \in Jobs : SendWebhook(j)
    \/ \E j \in Jobs, r \in Responses : WebhookSettled(j, r)
    \/ \E j \in Jobs : Catch(j)
    \/ \E j \in Jobs : UpdateJobError(j)
    \/ \E j \in Jobs : UpdateJobErrorThrows(j)
    \/ \E j \in Jobs : CleanupInput(j)
    \/ \E j \in Jobs : CleanupOutput(j)
    \/ \E j \in Jobs : CleanupThrows(j)
    \/ \E j \in Jobs : SendErrorWebhook(j)
    \/ \E j \in Jobs, r \in Responses : ErrorWebhookSettled(j, r)

Spec == Init /\ [][Next]_vars

\* ---- HTTP API actions ----
Dispatch(r, status) ==
    /\ requests < MaxRequests
    /\ requests' = requests + 1
    /\ req' = r
    /\ res' = status

\* GET /health, registered before the middleware
Health(r) ==
    /\ r.route = "/health"
    /\ Dispatch(r, 200)
    /\ UNCHANGED <<replyVars, sockVars, pipelineVars, API_KEY, configApiKey, apiLogs, handlerRuns>>

\* express.static and the SPA catch-all, for paths outside /api
Dashboard(r) ==
    /\ r.route \in StaticRoutes
    /\ Dispatch(r, 200)
    /\ UNCHANGED <<replyVars, sockVars, pipelineVars, API_KEY, configApiKey, apiLogs, handlerRuns>>

\* app.use('/api', authenticateApiKey) and the legacy routes: the middleware
\* answers 401 or 403 and does not call next()
AuthRejected(r) ==
    /\ r.route \in ProtectedRoutes
    /\ authenticateApiKey(r) # 0
    /\ Dispatch(r, authenticateApiKey(r))
    /\ apiLogs' = IF authenticateApiKey(r) = 403
                  THEN apiLog("error", "Invalid API key attempt")
                  ELSE apiLogs
    /\ UNCHANGED <<replyVars, sockVars, pipelineVars, API_KEY, configApiKey, handlerRuns>>

\* GET /api/status
ApiStatus(r) ==
    /\ r.route = "/api/status"
    /\ authenticateApiKey(r) = 0
    /\ Dispatch(r, 200)
    /\ apiLogs' = apiLog("api", "Status requested")
    /\ handlerRuns' = handlerRuns + 1
    /\ UNCHANGED <<replyVars, sockVars, pipelineVars, API_KEY, configApiKey>>

\* GET /api/apikey
ApiKeyGet(r) ==
    /\ r.route = "/api/apikey"
    /\ authenticateApiKey(r) = 0
    /\ Dispatch(r, 200)
    /\ handlerRuns' = handlerRuns + 1
    /\ UNCHANGED <<replyVars, sockVars, pipelineVars, API_KEY, configApiKey, apiLogs>>

\* a regeneration that writes the config row and leaves the key in memory
ApiKeyRegenerate_ConfigOnly(r, newKey) ==
    /\ r.route = "/api/apikey/regenerate"
    /\ authenticateApiKey(r) = 0
    /\ Dispatch(r, 200)
    /\ configApiKey' = newKey
    /\ API_KEY' = API_KEY
    /\ apiLogs' = apiLog("info", "API key regenerated")
    /\ handlerRuns' = handlerRuns + 1
    /\ UNCHANGED <<replyVars, sockVars, pipelineVars>>

\* POST /api/apikey/regenerate: regenerateApiKey, updateApiKey
ApiKeyRegenerate(r, newKey) ==
    /\ r.route = "/api/apikey/regenerate"
    /\ authenticateApiKey(r) = 0
    /\ Dispatch(r, 200)
    /\ configApiKey' = newKey
    /\ API_KEY' = newKey
    /\ apiLogs' = apiLog("info", "API key regenerated")
    /\ handlerRuns' = handlerRuns + 1
    /\ UNCHANGED <<replyVars, sockVars, pipelineVars>>

\* DELETE /api/logs
ApiLogsClear(r) ==
    /\ r.route = "/api/logs"
    /\ authenticateApiKey(r) = 0
    /\ Dispatch(r, 200)
    /\ apiLogs' = <<[type |-> "info", message |-> "All logs cleared"]>>
    /\ handlerRuns' = handlerRuns + 1
    /\ UNCHANGED <<replyVars, sockVars, pipelineVars, API_KEY, configApiKey>>

\* GET /status: authenticateApiKey, then res.redirect(307, '/api/status')
LegacyRedirect(r) ==
    /\ r.route \in LegacyRoutes
    /\ authenticateApiKey(r) = 0
    /\ Dispatch(r, 307)
    /\ handlerRuns' = handlerRuns + 1
    /\ UNCHANGED <<replyVars, sockVars, pipelineVars, API_KEY, configApiKey, apiLogs>>

ApiNext ==
    \/ \E r \in HttpRequests : Health(r)
    \/ \E r \in HttpRequests : Dashboard(r)
    \/ \E r \in HttpRequests : AuthRejected(r)
    \/ \E r \in HttpRequests : ApiStatus(r)
    \/ \E r \in HttpRequests : ApiKeyGet(r)
    \/ \E r \in HttpRequests, newKey \in Keys \ {API_KEY} : ApiKeyRegenerate(r, newKey)
    \/ \E r \in HttpRequests : ApiLogsClear(r)
    \/ \E r \in HttpRequests : LegacyRedirect(r)

\* the HTTP API alone, with no compression job submitted
ApiSpec == Init /\ [][ApiNext]_vars

\* every enabled step of the event loop is eventually taken
FairSpec == Spec /\ WF_vars(Next)

\* ---- concurrent jobs ----
\* several clients submit at about the same time: the same pipeline over
\* PairJobs, with one upload size and one output size, and no store or
\* unlink fault
PairInit ==
    /\ jobs = <<>>
    /\ files = <<>>
    /\ pc = [j \in PairJobs |-> "idle"]
    /\ running = 0
    /\ now = 0
    /\ originalFilename = [j \in PairJobs |-> 0]
    /\ outputFilename = [j \in PairJobs |-> 0]
    /\ error = [j \in PairJobs |-> ""]
    /\ posts = [j \in PairJobs |-> <<>>]
    /\ logs = [j \in PairJobs |-> <<>>]
    /\ events = [j \in PairJobs |-> <<>>]
    /\ response = [j \in PairJobs |-> None]
    /\ inserted = [j \in PairJobs |-> 0]
    /\ API_KEY = 1
    /\ configApiKey = 1
    /\ apiLogs = <<>>
    /\ req = NoRequest
    /\ res = 0
    /\ handlerRuns = 0
    /\ requests = 0
    /\ globalSock = 0
    /\ connectionStatus = "disconnected"
    /\ connectedNumber = 0
    /\ socks = [s \in Socks |-> "unused"]
    /\ opened = {}
    /\ timers = 0
    /\ connects = 0
    /\ pairings = 0
    /\ socksMade = 0
    /\ awaitingLogout = ""
    /\ autoReplies = defaultReplies
    /\ lastMsg = NoMessage
    /\ sent = <<>>

PairNext ==
    \/ Tick
    \/ \E j \in PairJobs, name \in Names : Submit(j, name, 1)
    \/ \E j \in PairJobs : Start(j)
    \/ \E j \in PairJobs, created \in BOOLEAN : ExecExitZero(j, created, 1)
    \/ \E j \in PairJobs, created \in BOOLEAN : ExecExitNonZero(j, created, 1)
    \/ \E j \in PairJobs : CheckOutput(j)
    \/ \E j \in PairJobs : UpdateJob(j)
    \/ \E j \in PairJobs : UnlinkInput(j)
    \/ \E j \in PairJobs : SendWebhook(j)
    \/ \E j \in PairJobs : WebhookSettled(j, "ok")
    \/ \E j \in PairJobs : Catch(j)
    \/ \E j \in PairJobs : UpdateJobError(j)
    \/ \E j \in PairJobs : CleanupInput(j)
    \/ \E j \in PairJobs : CleanupOutput(j)
    \/ \E j \in PairJobs : SendErrorWebhook(j)
    \/ \E j \in PairJobs : ErrorWebhookSettled(j, "ok")

PairSpec == PairInit /\ [][PairNext]_vars

\* ---- connection management ----
\* a call of connectToWhatsApp or initWhatsAppForPairing may start while the
\* model still has a socket to give it
MaySpawn == socksMade + connects + pairings < MaxSocks

\* POST /api/reconnect: end the current socket, call connectToWhatsApp
Reconnect ==
    /\ awaitingLogout = ""
    /\ MaySpawn
    /\ socks' = IF globalSock # 0 /\ socks[globalSock] \in LiveStates
                THEN [socks EXCEPT ![globalSock] = "closingOther"]
                ELSE socks
    /\ globalSock' = 0
    /\ connectionStatus' = "connecting"
    /\ connects' = connects + 1
    /\ UNCHANGED <<replyVars, apiVars, pipelineVars, connectedNumber, opened, timers, pairings,
                   socksMade, awaitingLogout>>

\* connectToWhatsApp after its await: makeWASocket, globalSock = sock
ConnectCreate ==
    /\ connects > 0
    /\ connects' = connects - 1
    /\ socksMade' = socksMade + 1
    /\ socks' = [socks EXCEPT ![socksMade + 1] = "connecting"]
    /\ globalSock' = socksMade + 1
    /\ UNCHANGED <<replyVars, apiVars, pipelineVars, connectionStatus, connectedNumber, opened,
                   timers, pairings, awaitingLogout>>

\* POST /api/request-pairing without a socket: call initWhatsAppForPairing
PairingStart ==
    /\ globalSock = 0
    /\ MaySpawn
    /\ pairings' = pairings + 1
    /\ UNCHANGED <<replyVars, apiVars, pipelineVars, globalSock, connectionStatus, connectedNumber,
                   socks, opened, timers, connects, socksMade, awaitingLogout>>

\* initWhatsAppForPairing after its await: makeWASocket, globalSock = sock,
\* connectionStatus = 'connecting'
PairingCreate ==
    /\ pairings > 0
    /\ pairings' = pairings - 1
    /\ socksMade' = socksMade + 1
    /\ socks' = [socks EXCEPT ![socksMade + 1] = "connecting"]
    /\ globalSock' = socksMade + 1
    /\ connectionStatus' = "connecting"
    /\ UNCHANGED <<replyVars, apiVars, pipelineVars, connectedNumber, opened, timers, connects,
                   awaitingLogout>>

\* connection.update { connection: 'connecting' } of socket s
EvConnecting(s) ==
    /\ socks[s] = "connecting"
    /\ connectionStatus # "connecting"
    /\ connectionStatus' = "connecting"
    /\ UNCHANGED <<replyVars, apiVars, pipelineVars, globalSock, connectedNumber, socks, opened,
                   timers, connects, pairings, socksMade, awaitingLogout>>

\* connection.update { connection: 'open' } of socket s
EvOpen(s) ==
    /\ socks[s] = "connecting"
    /\ socks' = [socks EXCEPT ![s] = "open"]
    /\ opened' = opened \cup {s}
    /\ connectionStatus' = "open"
    /\ connectedNumber' = 1
    /\ UNCHANGED <<replyVars, apiVars, pipelineVars, globalSock, timers, connects, pairings,
                   socksMade, awaitingLogout>>

\* the server or the network ends socket s
SockDrop(s, loggedOut) ==
    /\ socks[s] \in LiveStates
    /\ socks' = [socks EXCEPT ![s] = IF loggedOut THEN "closingLoggedOut"
                                     ELSE "closingOther"]
    /\ UNCHANGED <<replyVars, apiVars, pipelineVars, globalSock, connectionStatus, connectedNumber,
                   opened, timers, connects, pairings, socksMade, awaitingLogout>>

\* a close handler that schedules a reconnect whatever the reason
EvClose_ReconnectsAfterLogout(s) ==
    /\ socks[s] \in ClosingStates
    /\ socks' = [socks EXCEPT ![s] = "closed"]
    /\ connectionStatus' = "disconnected"
    /\ globalSock' = 0
    /\ timers' = timers + 1
    /\ UNCHANGED <<replyVars, apiVars, pipelineVars, connectedNumber, opened, connects, pairings,
                   socksMade, awaitingLogout>>

\* connection.update { connection: 'close' } of socket s
EvClose(s) ==
    /\ socks[s] \in ClosingStates
    /\ socks' = [socks EXCEPT ![s] = "closed"]
    /\ connectionStatus' = "disconnected"
    /\ globalSock' = 0
    /\ timers' = IF socks[s] = "closingOther" THEN timers + 1 ELSE timers
    /\ UNCHANGED <<replyVars, apiVars, pipelineVars, connectedNumber, opened, connects, pairings,
                   socksMade, awaitingLogout>>

\* the 5 second timer set by a close handler fires: connectToWhatsApp()
TimerFires ==
    /\ timers > 0
    /\ MaySpawn
    /\ timers' = timers - 1
    /\ connects' = connects + 1
    /\ UNCHANGED <<replyVars, apiVars, pipelineVars, globalSock, connectionStatus, connectedNumber,
                   socks, opened, pairings, socksMade, awaitingLogout>>

\* POST /api/disconnect with a socket: await globalSock.logout()
Disconnect ==
    /\ awaitingLogout = ""
    /\ globalSock # 0
    /\ socks[globalSock] \in LiveStates
    /\ socks' = [socks EXCEPT ![globalSock] = "closingLoggedOut"]
    /\ awaitingLogout' = "disconnect"
    /\ UNCHANGED <<replyVars, apiVars, pipelineVars, globalSock, connectionStatus, connectedNumber,
                   opened, timers, connects, pairings, socksMade>>

\* POST /api/reset-auth: log out if there is a socket, then clear the state
ResetAuth ==
    /\ awaitingLogout = ""
    /\ IF globalSock # 0 /\ socks[globalSock] \in LiveStates
       THEN /\ socks' = [socks EXCEPT ![globalSock] = "closingLoggedOut"]
            /\ awaitingLogout' = "reset-auth"
            /\ UNCHANGED <<globalSock, connectionStatus, connectedNumber>>
       ELSE /\ globalSock' = 0
            /\ connectionStatus' = "disconnected"
            /\ connectedNumber' = 0
            /\ <<globalSock, connectionStatus, connectedNumber>>
                  # <<0, "disconnected", 0>>
            /\ UNCHANGED <<socks, awaitingLogout>>
    /\ UNCHANGED <<replyVars, apiVars, pipelineVars, opened, timers, connects, pairings, socksMade>>

\* logout() has resolved: the handler clears globalSock, connectionStatus and
\* connectedNumber and answers
LogoutSettled ==
    /\ awaitingLogout # ""
    /\ awaitingLogout' = ""
    /\ globalSock' = 0
    /\ connectionStatus' = "disconnected"
    /\ connectedNumber' = 0
    /\ UNCHANGED <<replyVars, apiVars, pipelineVars, socks, opened, timers, connects, pairings,
                   socksMade>>

SockNext ==
    \/ Reconnect
    \/ ConnectCreate
    \/ PairingStart
    \/ PairingCreate
    \/ \E s \in Socks : EvConnecting(s)
    \/ \E s \in Socks : EvOpen(s)
    \/ \E s \in Socks, loggedOut \in BOOLEAN : SockDrop(s, loggedOut)
    \/ \E s \in Socks : EvClose(s)
    \/ TimerFires
    \/ Disconnect
    \/ ResetAuth
    \/ LogoutSettled

\* the connection management alone: no existing session at start, sockets
\* made through the API and by the reconnect timer
SockSpec == Init /\ [][SockNext]_vars

\* an emitted 'close' event is handled and a timer that is set fires
FairSockSpec ==
    /\ SockSpec
    /\ WF_vars(\E s \in Socks : EvClose(s))
    /\ WF_vars(TimerFires)

\* ---- auto-reply rules and incoming messages ----
\* POST /api/auto-replies: INSERT with is_active at its default, trigger_word
\* UNIQUE
AddRule(t, r) ==
    /\ Len(autoReplies) < MaxRules
    /\ \A i \in DOMAIN autoReplies : autoReplies[i].trigger_word # t
    /\ autoReplies' = Append(autoReplies,
                             [trigger_word |-> t, reply_message |-> r, is_active |-> TRUE])
    /\ UNCHANGED <<apiVars, pipelineVars, sockVars, lastMsg, sent>>

\* PUT /api/auto-replies/:id/toggle
ToggleRule(i) ==
    /\ i \in DOMAIN autoReplies
    /\ autoReplies' = [autoReplies EXCEPT ![i].is_active = ~@]
    /\ UNCHANGED <<apiVars, pipelineVars, sockVars, lastMsg, sent>>

\* DELETE /api/auto-replies/:id
DeleteRule(i) ==
    /\ i \in DOMAIN autoReplies
    /\ autoReplies' = [k \in 1..(Len(autoReplies) - 1) |->
                          IF k < i THEN autoReplies[k] ELSE autoReplies[k + 1]]
    /\ UNCHANGED <<apiVars, pipelineVars, sockVars, lastMsg, sent>>

\* the reply of the first of the rules with index in hits, as a sequence of
\* at most one reply
FirstReply(rules, hits) ==
    IF hits = {} THEN <<>>
    ELSE <<rules[CHOOSE i \in hits : \A k \in hits : i <= k].reply_message>>

\* SELECT ... FROM auto_replies WHERE is_active = 1
activeReplies == SelectSeq(autoReplies, LAMBDA r : r.is_active)

\* messageContent.toLowerCase().includes(reply.trigger_word.toLowerCase())
IncludesTrigger(content, t) == includes(toLowerCase(content), toLowerCase(t))

\* messageContent.toLowerCase() === 'bong' (and 'hello', 'ping')
EqualsTrigger(content, t) == toLowerCase(content) = t

\* the rules whose trigger the content includes
IncludesHits(rules, content) ==
    {i \in DOMAIN rules : IncludesTrigger(content, rules[i].trigger_word)}

\* the rules whose trigger the content equals
EqualsHits(rules, content) ==
    {i \in DOMAIN rules : EqualsTrigger(content, rules[i].trigger_word)}

\* messages.upsert as installed by connectToWhatsApp: the rules of the table
UpsertConnect(content, fromMe) ==
    /\ lastMsg' = [content |-> content, fromMe |-> fromMe, handler |-> "connectToWhatsApp"]
    /\ sent' = IF fromMe THEN <<>>
               ELSE FirstReply(activeReplies, IncludesHits(activeReplies, content))
    /\ UNCHANGED <<apiVars, pipelineVars, sockVars, autoReplies>>

\* messages.upsert as installed by initWhatsAppForPairing: the three replies
\* written in the handler
UpsertPairing(content, fromMe) ==
    /\ lastMsg' = [content |-> content, fromMe |-> fromMe, handler |-> "initWhatsAppForPairing"]
    /\ sent' = IF fromMe THEN <<>>
               ELSE FirstReply(defaultReplies, EqualsHits(defaultReplies, content))
    /\ UNCHANGED <<apiVars, pipelineVars, sockVars, autoReplies>>

ReplyNext ==
    \/ \E t \in AddedTriggers, r \in AddedReplies : AddRule(t, r)
    \/ \E i \in 1..MaxRules : ToggleRule(i)
    \/ \E i \in 1..MaxRules : DeleteRule(i)
    \/ \E content \in Contents, fromMe \in BOOLEAN : UpsertConnect(content, fromMe)
    \/ \E content \in Contents, fromMe \in BOOLEAN : UpsertPairing(content, fromMe)

\* the auto-reply rules and the messages of a connected account
ReplySpec == Init /\ [][ReplyNext]_vars

\* ---- properties ----
Terminal(j) == j \in DOMAIN jobs /\ jobs[j].status \in {"completed", "failed"}

StoreFailed(j) == "store_error" \in Range(events[j])

PostEvents == {"post_completed", "post_failed"}
WriteEvents == {"write_completed", "write_failed"}
DeliveryFailureLogs == {"Webhook failed", "Webhook error", "Error webhook failed"}

\* r (hundredths of a percent) is (o - c) / o * 100 rounded to two decimals
IsRatioOf(r, o, c) == 2 * Abs(r * o - (o - c) * 10000) <= o

\* C1: once a job record is completed or failed, no later step changes its
\* status or any other field.
C1_TerminalRecordImmutable ==
    [][\A j \in DOMAIN jobs :
          jobs[j].status \in {"completed", "failed"} => jobs'[j] = jobs[j]]_vars

\* C2: compressed_size, compression_ratio and compressed_filename are all set
\* or all unset, and set exactly when status = completed.
C2_CompressedFieldsIffCompleted ==
    \A j \in DOMAIN jobs :
        LET r == jobs[j]
        IN  /\ IsSet(r.compressed_size) = IsSet(r.compression_ratio)
            /\ IsSet(r.compressed_size) = IsSet(r.compressed_filename)
            /\ IsSet(r.compressed_size) = (r.status = "completed")

\* C3: if the record store accepts writes, every job whose compressPdfAsync
\* has started eventually reaches completed or failed.
C3_SubmittedJobEventuallyTerminal ==
    \A j \in Jobs : (pc[j] = "exec") ~> (Terminal(j) \/ StoreFailed(j))

\* C4: if the engine subprocess never exits, the job reaches failed and
\* exactly one failure webhook is sent for it.
C4_HungEngineTimesOut ==
    \A j \in Jobs :
        (pc[j] = "hung") ~> (/\ j \in DOMAIN jobs
                             /\ jobs[j].status = "failed"
                             /\ Len(posts[j]) = 1
                             /\ posts[j][1].payload.status = "failed")

\* C5: at most one webhook POST is attempted per job, whatever its outcome.
C5_AtMostOnePost ==
    \A j \in Jobs : Len(posts[j]) <= 1

\* C5 witness: a finished job whose single POST met a network error.
C5_Witness ==
    \E j \in Jobs : /\ pc[j] = "done"
                    /\ Len(posts[j]) = 1
                    /\ posts[j][1].outcome = "neterr"
                    /\ posts[j][1].payload.status = "completed"

\* C6: every job whose run has ended in a terminal state got a POST of the
\* matching kind, and every POST carries the status stored at that moment.
C6_TerminalJobGetsMatchingPost ==
    \A j \in Jobs :
        /\ (pc[j] \in {"done", "rejected"} /\ Terminal(j))
              => \E i \in DOMAIN posts[j] : posts[j][i].payload.status = jobs[j].status
        /\ \A i \in DOMAIN posts[j] : posts[j][i].payload.status = posts[j][i].recordStatus

\* C7: a delivery answered with a non-2xx status or a network error leaves
\* the record as resolved, is logged, and raises nothing.
C7_FailedDeliveryLoggedAndHarmless ==
    \A j \in Jobs : \A i \in DOMAIN posts[j] :
        posts[j][i].outcome \in {"non2xx", "neterr"}
            => /\ jobs[j].status = posts[j][i].recordStatus
               /\ pc[j] # "rejected"
               /\ \E k \in DOMAIN logs[j] :
                     /\ logs[j][k].type = "error"
                     /\ logs[j][k].message \in DeliveryFailureLogs

\* C8: once a job's run has ended after its delivery, its input file and its
\* output file are gone from the uploads directory.
C8_FilesRemovedAfterDelivery ==
    \A j \in Jobs :
        (pc[j] = "done" /\ Terminal(j))
            => /\ ~existsSync(inputPath(j))
               /\ ~existsSync(outputPath(j))

\* C9: per job, the resolving record write precedes the webhook POST, and the
\* POST precedes the removal of the output file.
C9_WriteThenPostThenOutputRemoval ==
    \A j \in Jobs : \A i \in DOMAIN events[j] :
        /\ events[j][i] = "rm_output"
              => \E k \in 1..(i - 1) : events[j][k] \in PostEvents
        /\ events[j][i] \in PostEvents
              => \E k \in 1..(i - 1) : events[j][k] \in WriteEvents

\* C10: for every completed job the stored compression_ratio is
\* (original_size - compressed_size) / original_size * 100 rounded to two
\* decimals over the sizes stored in the same record, the success payload
\* reports the same relation, and the completing write happens at most once.
C10_RatioMatchesStoredSizes ==
    \A j \in Jobs :
        /\ (j \in DOMAIN jobs /\ jobs[j].status = "completed")
              => /\ IsSet(jobs[j].compression_ratio)
                 /\ IsSet(jobs[j].compressed_size)
                 /\ \A r \in jobs[j].compression_ratio : \A c \in jobs[j].compressed_size :
                        IsRatioOf(r, jobs[j].original_size, c)
        /\ \A i \in DOMAIN posts[j] :
              posts[j][i].payload.status = "completed"
                 => /\ IsSet(posts[j][i].payload.compressionRatio)
                    /\ \A r \in posts[j][i].payload.compressionRatio :
                       \A c \in posts[j][i].payload.compressedSize :
                           IsRatioOf(r, posts[j][i].payload.originalSize, c)
        /\ Cardinality({i \in DOMAIN events[j] : events[j][i] = "write_completed"}) <= 1

\* C10 witness: a completed, delivered job whose output is larger than its
\* input and whose ratio is not an exact number of hundredths.
C10_Witness ==
    \E j \in DOMAIN jobs :
        /\ jobs[j].status = "completed"
        /\ pc[j] = "done"
        /\ \E c \in jobs[j].compressed_size :
              /\ c > jobs[j].original_size
              /\ ((c - jobs[j].original_size) * 10000) % jobs[j].original_size # 0

SuccessPayloadFields == {"jobId", "status", "originalFilename", "compressedFilename",
                         "originalSize", "compressedSize", "compressionRatio",
                         "fileData", "mimeType", "completedAt"}
FailurePayloadFields == {"jobId", "status", "error"}
DeliveryLogs == DeliveryFailureLogs \cup {"Webhook sent successfully"}

C13_SubmissionAnsweredAtOnce ==
    /\ [](\A j \in DOMAIN jobs :
             /\ inserted[j] = 1
             /\ response[j] = Some([code |-> 202, success |-> TRUE, jobId |-> j,
                                    status |-> "processing"]))
    /\ [][\A j \in Jobs :
             /\ (j \notin DOMAIN jobs /\ j \in DOMAIN jobs')
                   => /\ jobs'[j].status = "processing"
                      /\ pc'[j] = "start"
                      /\ IsSet(response'[j])
             /\ j \in DOMAIN jobs => response'[j] = response[j]]_vars

\* C13 witness: the submission has been answered while the engine is running.
C13_Witness ==
    \E j \in DOMAIN jobs : /\ pc[j] = "exec"
                           /\ jobs[j].status = "processing"
                           /\ IsSet(response[j])

\* C14: a submission that fails validation is answered with a client error
\* and creates no job record, starts no engine run and sends no webhook;
\* every job record comes from a valid submission.
C14_InvalidSubmissionHasNoEffect ==
    /\ [](\A j \in Jobs :
             /\ pc[j] = "invalid"
                   => /\ j \notin DOMAIN jobs
                      /\ posts[j] = <<>>
                      /\ logs[j] = <<>>
                      /\ outputFilename[j] = 0
                      /\ \A r \in response[j] : ~r.success /\ r.code \in {400, 413}
             /\ j \in DOMAIN jobs
                   => ValidUpload(jobs[j].original_size, PdfMime, jobs[j].webhook_url))
    /\ [][\A j \in Jobs :
             (pc[j] # "invalid" /\ pc'[j] = "invalid")
                => /\ jobs' = jobs
                   /\ files' = files
                   /\ posts' = posts
                   /\ inserted' = inserted]_vars

\* C14 witness: an oversized upload has been rejected.
C14_Witness ==
    \E j \in Jobs : /\ pc[j] = "invalid"
                    /\ \E r \in response[j] : r.code = 413

\* C15: no job_id is ever inserted twice, and the store holds exactly the one
\* record inserted under each job_id.
C15_JobIdUnique ==
    \A j \in Jobs :
        /\ inserted[j] <= 1
        /\ (j \in DOMAIN jobs) = (inserted[j] = 1)
        /\ j \in DOMAIN jobs => jobs[j].job_id = j

\* C15 witness: a job has run to its end and its job_id is still the id of
\* one record only.
C15_Witness ==
    \E j \in DOMAIN jobs : pc[j] = "done" /\ inserted[j] = 1

\* C17: a resolving write attempted on a record that is already completed or
\* failed leaves the record unchanged.
C17_SecondResolutionRejected ==
    [][\A j \in DOMAIN jobs :
          (Terminal(j) /\ pc[j] \in {"update", "update_error"})
             => jobs'[j] = jobs[j]]_vars

\* C18: a job is completed only with a non-empty output file; compressed_size
\* of a completed job is never 0.
C18_CompletedOnlyWithNonEmptyOutput ==
    \A j \in DOMAIN jobs :
        jobs[j].status = "completed"
            => /\ IsSet(jobs[j].compressed_size)
               /\ \A c \in jobs[j].compressed_size : c > 0

\* C19: a failed file deletion does not raise out of compressPdfAsync, does
\* not turn a completed job into a failed one and does not suppress the
\* webhook.
C19_DeletionFailureHarmless ==
    \A j \in Jobs :
        "unlink_error" \in Range(events[j])
            => /\ pc[j] # "rejected"
               /\ ~({"write_completed", "write_failed"} \subseteq Range(events[j]))
               /\ (pc[j] = "done" => posts[j] # <<>>)

\* C20: every settled delivery attempt, of either payload kind and with any
\* outcome, has a log entry about the delivery.
C20_EveryDeliveryLogged ==
    \A j \in Jobs : \A i \in DOMAIN posts[j] :
        posts[j][i].outcome \in Responses
            => \E k \in DOMAIN logs[j] : logs[j][k].message \in DeliveryLogs

\* the current key is in one of the three places a request can carry it
CarriesCurrentKey(r) ==
    \/ r.xApiKey = API_KEY
    \/ r.authorization.key = API_KEY
    \/ r.queryApiKey = API_KEY

C21_StoreFailureSwallowed ==
    \A j \in Jobs :
        StoreFailed(j)
            => /\ pc[j] # "rejected"
               /\ pc[j] = "done" => \E k \in DOMAIN logs[j] : logs[j][k].type = "error"

\* compressPdfAsync of job j has computed its output path and has not ended
InFlight(j) ==
    pc[j] \in {"exec", "hung", "check", "update", "unlink_input", "webhook",
               "await_webhook", "catch", "update_error", "cleanup_input",
               "cleanup_output", "error_webhook", "await_error_webhook"}

\* C22: two jobs in flight at the same time never have the same output path,
\* and no job removes an output file that another job wrote.
C22_OutputPathsDistinct ==
    /\ [](\A j, k \in DOMAIN pc :
             (j # k /\ InFlight(j) /\ InFlight(k)) => outputPath(j) # outputPath(k))
    /\ [][\A j \in DOMAIN pc : \A p \in DOMAIN files :
             (pc[j] = "cleanup_output" /\ pc'[j] # "cleanup_output"
                /\ p \notin DOMAIN files')
             => files[p].data = j]_vars

\* C23: a step that writes one job's record leaves every other record as it
\* was, and what a job delivers as its compressed file is the output of its
\* own engine run, as when the job runs alone.
C23_NoCrossJobInterference ==
    /\ [](\A j \in DOMAIN pc : \A i \in DOMAIN posts[j] :
             posts[j][i].payload.status = "completed"
                => posts[j][i].payload.fileData = j)
    /\ [][\A j, k \in DOMAIN jobs :
             (j # k /\ jobs'[j] # jobs[j]) => jobs'[k] = jobs[k]]_vars

\* number of times compressPdfAsync of job j has reached its execAsync call
EngineRuns(j) ==
    Cardinality({k \in DOMAIN logs[j] : logs[j][k].message = "Starting PDF compression"})

\* C24: the engine is invoked at most once per job: a job awaits execAsync
\* only as the continuation of its one start, and never again after the
\* engine has failed, hung or left no output.
C24_EngineRunsAtMostOnce ==
    /\ [](\A j \in Jobs : EngineRuns(j) <= 1)
    /\ [][\A j \in Jobs :
             /\ (pc'[j] = "exec" /\ pc[j] # "exec") => (pc[j] = "start" /\ EngineRuns(j) = 0)
             /\ (pc'[j] = "start" /\ pc[j] # "start") => j \notin DOMAIN jobs]_vars

\* C24 witness: a job whose engine left no output has ended as failed after
\* one engine run.
C24_Witness ==
    \E j \in DOMAIN jobs :
        /\ pc[j] = "done"
        /\ jobs[j].status = "failed"
        /\ jobs[j].error_message = Some("Compressed PDF was not created")
        /\ EngineRuns(j) = 1

\* the columns written by the INSERT and by no UPDATE
CreationFields(r) == <<r.job_id, r.webhook_url, r.original_filename, r.original_size,
                       r.created_at>>

\* C25: no step removes a job record or changes its job_id, webhook_url,
\* original_filename, original_size or created_at; they stay the values of
\* the submission.
C25_CreationFieldsFixed ==
    /\ [](\A j \in DOMAIN jobs :
             /\ jobs[j].job_id = j
             /\ jobs[j].webhook_url = WebhookUrl
             /\ jobs[j].original_filename = originalFilename[j]
             /\ jobs[j].created_at <= now)
    /\ [][\A j \in DOMAIN jobs :
             /\ j \in DOMAIN jobs'
             /\ CreationFields(jobs'[j]) = CreationFields(jobs[j])]_vars

\* C25 witness: a job submitted at time 0 with the largest accepted upload
\* has been resolved at a later time and its run has ended.
C25_Witness ==
    \E j \in DOMAIN jobs :
        /\ pc[j] = "done"
        /\ Terminal(j)
        /\ jobs[j].created_at = 0
        /\ jobs[j].completed_at = Some(MaxClock)
        /\ jobs[j].original_size = MaxSize

\* C26: completed_at is set exactly when status is completed or failed, and
\* error_message is set only when status is failed.
C26_CompletedAtIffTerminal ==
    \A j \in DOMAIN jobs :
        /\ IsSet(jobs[j].completed_at) = (jobs[j].status \in {"completed", "failed"})
        /\ IsSet(jobs[j].error_message) => jobs[j].status = "failed"
        /\ jobs[j].status \in {"processing", "completed", "failed"}

\* C26 witness: a job stored as completed and then, after its input could
\* not be unlinked, as failed.
C26_Witness ==
    \E j \in DOMAIN jobs :
        /\ jobs[j].status = "failed"
        /\ IsSet(jobs[j].error_message)
        /\ IsSet(jobs[j].completed_at)
        /\ "write_completed" \in Range(events[j])

\* C27: removing a file that is already gone is a no-op: the guarded removals
\* of the catch block skip an absent file without raising or changing any
\* job state, and the unguarded unlink of the success path is never reached
\* with its file absent.
C27_RemovalIdempotent ==
    /\ [](\A j \in Jobs :
             /\ pc[j] = "unlink_input" => existsSync(inputPath(j))
             /\ error[j] # "ENOENT")
    /\ [][\A j \in Jobs :
             /\ (pc[j] = "cleanup_input" /\ pc'[j] # pc[j] /\ ~existsSync(inputPath(j)))
                   => /\ pc'[j] = "cleanup_output"
                      /\ <<files, jobs, error, events, logs, posts>>'
                            = <<files, jobs, error, events, logs, posts>>
             /\ (pc[j] = "cleanup_output" /\ pc'[j] # pc[j] /\ ~existsSync(outputPath(j)))
                   => /\ pc'[j] = "error_webhook"
                      /\ <<files, jobs, error, events, logs, posts>>'
                            = <<files, jobs, error, events, logs, posts>>]_vars

\* C27 witness: the input was unlinked on the success path, a later statement
\* threw, and the catch block has passed its removal of the same input.
C27_Witness ==
    \E j \in Jobs :
        /\ events[j] = <<"write_completed", "rm_input", "write_failed">>
        /\ pc[j] = "cleanup_output"
        /\ ~existsSync(inputPath(j))

\* the keys the middleware lets through when sent as X-API-Key
AcceptedKeys ==
    {k \in Keys : authenticateApiKey([NoRequest EXCEPT !.route = "/api/status",
                                                        !.xApiKey = k]) = 0}

\* C28: exactly one key is accepted at any moment and it is the one stored in
\* the config table; a regeneration replaces it by a different key, and from
\* then on a request is let through exactly when the key it presents is the
\* current one, so the previous key is rejected.
C28_RegenerationReplacesKey ==
    /\ [](/\ API_KEY = configApiKey
          /\ AcceptedKeys = {API_KEY})
    /\ [][requests' = requests + 1 =>
             /\ req'.route \in ProtectedRoutes
                   => ((res' \notin {401, 403}) <=> (PresentedKey(req') = API_KEY))
             /\ (req'.route = "/api/apikey/regenerate" /\ res' = 200)
                   => /\ API_KEY' # API_KEY
                      /\ configApiKey' = API_KEY'
                      /\ API_KEY \notin AcceptedKeys'
             /\ ~(req'.route = "/api/apikey/regenerate" /\ res' = 200)
                   => /\ API_KEY' = API_KEY
                      /\ configApiKey' = configApiKey]_vars

\* C28 witness: after a regeneration, a request presenting the key that was
\* valid at start has been answered 403.
C28_Witness ==
    /\ API_KEY # 1
    /\ configApiKey = API_KEY
    /\ req.route = "/api/status"
    /\ req.xApiKey = 1
    /\ res = 403
    /\ handlerRuns = 1

\* sockets that exist and have not been ended, and calls that will make one
LiveOrPending ==
    Cardinality({s \in Socks : socks[s] \in LiveStates}) + connects + pairings

\* C29: a 'close' event of a socket that is not the current globalSock does
\* not clear globalSock, does not overwrite connectionStatus and schedules no
\* reconnect; at most one socket is live or pending at any time.
C29_StaleSocketEventsIgnored ==
    /\ [][\A s \in Socks :
             (socks[s] \in ClosingStates /\ socks'[s] = "closed" /\ s # globalSock)
                => /\ globalSock' = globalSock
                   /\ connectionStatus' = connectionStatus
                   /\ timers' = timers]_vars
    /\ [](LiveOrPending <= 1)

\* globalSock, connectionStatus and connectedNumber as left by a disconnect
Cleared == <<globalSock, connectionStatus, connectedNumber>> = <<0, "disconnected", 0>>

\* C30: connectionStatus = 'open' only while globalSock is the socket that
\* reported 'open'; when /api/disconnect or /api/reset-auth completes the
\* status is 'disconnected' and globalSock and connectedNumber are null, and
\* they stay so until a connection is started.
C30_OpenMeansCurrentSocket ==
    /\ [](connectionStatus = "open" => (globalSock # 0 /\ globalSock \in opened))
    /\ [][(awaitingLogout # "" /\ awaitingLogout' = "") => Cleared']_vars
    /\ [][(Cleared /\ <<socksMade, connects, pairings>>' = <<socksMade, connects, pairings>>)
             => Cleared']_vars

\* C31: the 'close' handler of a socket that was logged out schedules no
\* reconnect; for any other reason it schedules exactly one connectToWhatsApp
\* timer, and every timer that has been set fires, so the close is followed
\* by a reconnection attempt (while the model still has a socket to make).
C31_ReconnectUnlessLoggedOut ==
    /\ [][\A s \in Socks :
             (socks[s] \in ClosingStates /\ socks'[s] = "closed")
                => /\ socks[s] = "closingLoggedOut" => timers' = timers
                   /\ socks[s] = "closingOther" => timers' = timers + 1
                   /\ connects' = connects]_vars
    /\ [][timers' < timers => (timers' = timers - 1 /\ connects' = connects + 1)]_vars
    /\ \A s \in Socks :
          (socks[s] = "closingOther") ~> ((socks[s] = "closed" /\ timers = 0) \/ ~MaySpawn)

\* C31 witness: one socket was ended by the server without a log-out, its
\* timer has fired and connectToWhatsApp has made the next socket; that one
\* was logged out and has left no timer and no pending call.
C31_Witness ==
    /\ socks[1] = "closed"
    /\ socks[2] = "closed"
    /\ socksMade = 2
    /\ timers = 0
    /\ connects = 0
    /\ pairings = 0
    /\ globalSock = 0
    /\ connectionStatus = "disconnected"

\* C32: for each incoming message the bot sends at most one auto-reply, that
\* of the first active rule of the table whose trigger matches; a message of
\* the bot's own account (fromMe) and a message matching only inactive rules
\* produce none.
C32_FirstActiveRuleReplies ==
    [][(lastMsg' # lastMsg \/ sent' # sent) =>
          /\ Len(sent') <= 1
          /\ lastMsg'.fromMe => sent' = <<>>
          /\ ~lastMsg'.fromMe =>
                sent' = FirstReply(activeReplies,
                                   IncludesHits(activeReplies, lastMsg'.content))]_vars

====
